---- MODULE Spec2Model ----
(***************************************************************************)
(* django_migration_conflicts.apps: the system check                       *)
(* check_max_migration_files, which compares each first-party              *)
(* application's migrations/max_migration.txt with the migration modules   *)
(* found on disk.                                                          *)
(*                                                                         *)
(* Text is modelled as a sequence of code points (10 = LF, 13 = CR,        *)
(* 32 = space, 49 = "1", 50 = "2", 95 = "_", 126 = "~").                   *)
(***************************************************************************)
EXTENDS Naturals, Sequences, FiniteSets

VARIABLES registry, disk, app_configs, i, errors, pc, exc, reads, maxed

vars == <<registry, disk, app_configs, i, errors, pc, exc, reads, maxed>>

(* ------------------------------ bounds -------------------------------- *)

\* Number of installed applications in the registry (specification Spec).
NumApps == 2

\* Longest marker file, in characters (specification SpecFile).
MaxLen == 3

(* --------------------- Python str semantics --------------------------- *)

\* Characters for which str.isspace() is true; str.strip() removes them.
Whitespace ==
    {9, 10, 11, 12, 13, 28, 29, 30, 31, 32, 133, 160, 5760, 8232, 8233, 8239, 8287, 12288}
        \cup (8192 .. 8202)

\* Line boundaries of str.splitlines().
LineBreaks == {10, 11, 12, 13, 28, 29, 30, 133, 8232, 8233}

RECURSIVE lstrip(_)
lstrip(s) ==
    IF s = <<>> THEN s
    ELSE IF Head(s) \in Whitespace THEN lstrip(Tail(s)) ELSE s

RECURSIVE rstrip(_)
rstrip(s) ==
    IF s = <<>> THEN s
    ELSE IF s[Len(s)] \in Whitespace THEN rstrip(SubSeq(s, 1, Len(s) - 1)) ELSE s

\* Variant: only trailing whitespace is removed.
strip_RightOnly(s) == rstrip(s)

strip(s) == rstrip(lstrip(s))

RECURSIVE splitlines(_)
splitlines(s) ==
    IF s = <<>> THEN <<>>
    ELSE LET brk  == {k \in 1 .. Len(s) : s[k] \in LineBreaks}
             k    == IF brk = {} THEN Len(s) + 1
                     ELSE CHOOSE m \in brk : \A n \in brk : m <= n
             line == SubSeq(s, 1, k - 1)
             last == IF k < Len(s) /\ s[k] = 13 /\ s[k + 1] = 10 THEN k + 1 ELSE k
         IN  IF k > Len(s) THEN <<line>>
             ELSE <<line>> \o splitlines(SubSeq(s, last + 1, Len(s)))

\* Text-mode reading translates "\r\n" and "\r" to "\n" (newline=None).
RECURSIVE universal_newlines(_)
universal_newlines(s) ==
    IF s = <<>> THEN s
    ELSE IF Head(s) = 13
         THEN IF Len(s) > 1 /\ s[2] = 10
              THEN <<10>> \o universal_newlines(Tail(Tail(s)))
              ELSE <<10>> \o universal_newlines(Tail(s))
         ELSE <<Head(s)>> \o universal_newlines(Tail(s))

\* a < b for str: code point by code point, a proper prefix being smaller.
\* Variant: the shorter string is the smaller one (numeric-looking order).
str_lt_ShorterFirst(a, b) ==
    IF Len(a) # Len(b) THEN Len(a) < Len(b)
    ELSE \E k \in 1 .. Len(a) :
            /\ \A j \in 1 .. k - 1 : a[j] = b[j]
            /\ a[k] < b[k]

RECURSIVE str_lt(_, _)
str_lt(a, b) ==
    IF b = <<>> THEN FALSE
    ELSE IF a = <<>> THEN TRUE
    ELSE IF Head(a) # Head(b) THEN Head(a) < Head(b)
    ELSE str_lt(Tail(a), Tail(b))

\* max() of a non-empty set of str.
max(S) == CHOOSE m \in S : \A n \in S : ~ str_lt(m, n)

(* --------------------------- the program ------------------------------ *)

\* first_party_app_configs: apps whose path has a "site-packages" part are skipped.
in_site_packages(app_config) ==
    \E k \in DOMAIN app_config.path : app_config.path[k] = "site-packages"

\* Variant: a namespace migrations module is kept.
migrations_module_KeepNamespace(app_label) ==
    IF disk[app_label].module = "missing" THEN "None"
    ELSE IF disk[app_label].module = "nonpackage" THEN "None"
    ELSE "module"

\* MigrationDetails.__init__: the migrations module, or None when it cannot
\* be imported, is a namespace module, or is not a package.
migrations_module(app_label) ==
    IF disk[app_label].module = "missing" THEN "None"
    ELSE IF disk[app_label].module = "namespace" THEN "None"
    ELSE IF disk[app_label].module = "nonpackage" THEN "None"
    ELSE "module"

has_migrations(app_label) == migrations_module(app_label) # "None"

\* Variant: sub-packages are not excluded.
names_WithPackages(app_label) ==
    {m.name : m \in {e \in disk[app_label].modules : e.name[1] \notin {95, 126}}}

\* MigrationDetails.names
names(app_label) ==
    {m.name : m \in {e \in disk[app_label].modules :
                        ~ e.is_pkg /\ e.name[1] \notin {95, 126}}}

\* max_migration_txt.exists()
exists(app_label) == disk[app_label].marker.exists

\* max_migration_txt.read_text() when it succeeds
read_text(app_label) == universal_newlines(disk[app_label].marker.data)

\* Variant: the text is split without being stripped first.
max_migration_txt_lines_NoStrip(app_label) == splitlines(read_text(app_label))

\* max_migration_txt.read_text().strip().splitlines()
max_migration_txt_lines(app_label) == splitlines(strip(read_text(app_label)))

Error(id, app_config, args) == [id |-> id, label |-> app_config.label, args |-> args]

\* Variant: the message is formatted with the first application of the registry.
E001_FirstApp(app_config) == Error("dmc.E001", registry[1], <<>>)

E001(app_config) == Error("dmc.E001", app_config, <<>>)

E002(app_config) == Error("dmc.E002", app_config, <<>>)

E003(app_config, max_migration_name) ==
    Error("dmc.E003", app_config, <<max_migration_name>>)

E004(app_config, max_migration_name, real_max_migration_name) ==
    Error("dmc.E004", app_config, <<max_migration_name, real_max_migration_name>>)

\* The application the loop is looking at.
app_config == registry[i]

InLoop == pc = "loop" /\ i <= Len(registry)

\* The application passed the three "continue" filters and its marker exists.
Examined ==
    /\ InLoop
    /\ ~ in_site_packages(app_config)
    /\ (app_configs.is_none \/ app_config.label \in app_configs.apps)
    /\ has_migrations(app_config.label)

\* A readable marker: read_text() returned and the lines were computed.
Read ==
    /\ Examined
    /\ exists(app_config.label)
    /\ disk[app_config.label].marker.readable

SkipSitePackages ==
    /\ InLoop
    /\ in_site_packages(app_config)
    /\ i' = i + 1
    /\ UNCHANGED <<registry, disk, app_configs, errors, pc, exc, reads, maxed>>

SkipNotSelected ==
    /\ InLoop
    /\ ~ in_site_packages(app_config)
    /\ ~ app_configs.is_none /\ app_config.label \notin app_configs.apps
    /\ i' = i + 1
    /\ UNCHANGED <<registry, disk, app_configs, errors, pc, exc, reads, maxed>>

SkipNoMigrations ==
    /\ InLoop
    /\ ~ in_site_packages(app_config)
    /\ (app_configs.is_none \/ app_config.label \in app_configs.apps)
    /\ ~ has_migrations(app_config.label)
    /\ i' = i + 1
    /\ UNCHANGED <<registry, disk, app_configs, errors, pc, exc, reads, maxed>>

AppendE001 ==
    /\ Examined
    /\ ~ exists(app_config.label)
    /\ errors' = Append(errors, E001(app_config))
    /\ i' = i + 1
    /\ UNCHANGED <<registry, disk, app_configs, pc, exc, reads, maxed>>

\* read_text() raises (PermissionError, UnicodeDecodeError, ...): nothing catches it.
RaiseReadError ==
    /\ Examined
    /\ exists(app_config.label)
    /\ ~ disk[app_config.label].marker.readable
    /\ reads' = reads \cup {app_config.label}
    /\ pc' = "raised"
    /\ exc' = "ReadError"
    /\ UNCHANGED <<registry, disk, app_configs, i, errors, maxed>>

\* Variant: no "continue" after E002, so the first line is looked up as well.
AppendE002_NoContinue ==
    /\ Read
    /\ Len(max_migration_txt_lines(app_config.label)) > 1
    /\ reads' = reads \cup {app_config.label}
    /\ LET max_migration_name == max_migration_txt_lines(app_config.label)[1]
       IN  errors' =
              IF max_migration_name \notin names(app_config.label)
              THEN Append(Append(errors, E002(app_config)),
                          E003(app_config, max_migration_name))
              ELSE Append(errors, E002(app_config))
    /\ i' = i + 1
    /\ UNCHANGED <<registry, disk, app_configs, pc, exc, maxed>>

AppendE002 ==
    /\ Read
    /\ Len(max_migration_txt_lines(app_config.label)) > 1
    /\ reads' = reads \cup {app_config.label}
    /\ errors' = Append(errors, E002(app_config))
    /\ i' = i + 1
    /\ UNCHANGED <<registry, disk, app_configs, pc, exc, maxed>>

\* max_migration_txt_lines[0] on an empty list.
RaiseIndexError ==
    /\ Read
    /\ Len(max_migration_txt_lines(app_config.label)) = 0
    /\ reads' = reads \cup {app_config.label}
    /\ pc' = "raised"
    /\ exc' = "IndexError"
    /\ UNCHANGED <<registry, disk, app_configs, i, errors, maxed>>

AppendE003 ==
    /\ Read
    /\ Len(max_migration_txt_lines(app_config.label)) = 1
    /\ LET max_migration_name == max_migration_txt_lines(app_config.label)[1]
       IN  /\ max_migration_name \notin names(app_config.label)
           /\ errors' = Append(errors, E003(app_config, max_migration_name))
    /\ reads' = reads \cup {app_config.label}
    /\ i' = i + 1
    /\ UNCHANGED <<registry, disk, app_configs, pc, exc, maxed>>

AppendE004 ==
    /\ Read
    /\ Len(max_migration_txt_lines(app_config.label)) = 1
    /\ LET max_migration_name == max_migration_txt_lines(app_config.label)[1]
           real_max_migration_name == max(names(app_config.label))
       IN  /\ max_migration_name \in names(app_config.label)
           /\ max_migration_name # real_max_migration_name
           /\ errors' = Append(errors,
                 E004(app_config, max_migration_name, real_max_migration_name))
    /\ reads' = reads \cup {app_config.label}
    /\ maxed' = maxed \cup {app_config.label}
    /\ i' = i + 1
    /\ UNCHANGED <<registry, disk, app_configs, pc, exc>>

Consistent ==
    /\ Read
    /\ Len(max_migration_txt_lines(app_config.label)) = 1
    /\ LET max_migration_name == max_migration_txt_lines(app_config.label)[1]
           real_max_migration_name == max(names(app_config.label))
       IN  /\ max_migration_name \in names(app_config.label)
           /\ max_migration_name = real_max_migration_name
    /\ reads' = reads \cup {app_config.label}
    /\ maxed' = maxed \cup {app_config.label}
    /\ i' = i + 1
    /\ UNCHANGED <<registry, disk, app_configs, errors, pc, exc>>

Return ==
    /\ pc = "loop"
    /\ i > Len(registry)
    /\ pc' = "returned"
    /\ UNCHANGED <<registry, disk, app_configs, i, errors, exc, reads, maxed>>

Next ==
    \/ SkipSitePackages
    \/ SkipNotSelected
    \/ SkipNoMigrations
    \/ AppendE001
    \/ RaiseReadError
    \/ AppendE002
    \/ RaiseIndexError
    \/ AppendE003
    \/ AppendE004
    \/ Consistent
    \/ Return

(* ------------------------- the environments --------------------------- *)

Paths == {<<"srv", "project", "app">>, <<"venv", "lib", "site-packages", "app">>}

Absent == [exists |-> FALSE, readable |-> FALSE, data |-> <<>>]

Unreadable == [exists |-> TRUE, readable |-> FALSE, data |-> <<>>]

File(data) == [exists |-> TRUE, readable |-> TRUE, data |-> data]

Module(name) == [name |-> name, is_pkg |-> FALSE]

Package(name) == [name |-> name, is_pkg |-> TRUE]

\* What pkgutil.iter_modules may find in a migrations directory:
\* 1.py, 12.py, 2.py, _2.py and the sub-package 21/.
ModuleUniverse ==
    {Module(<<49>>), Module(<<49, 50>>), Module(<<50>>), Module(<<95, 50>>),
     Package(<<50, 49>>)}

Alphabet == {10, 13, 32, 49, 50}

RECURSIVE Texts(_)
Texts(n) ==
    IF n = 0 THEN {<<>>}
    ELSE LET shorter == Texts(n - 1)
         IN  shorter \cup {Append(t, c) : t \in shorter, c \in Alphabet}

\* A migrations module that cannot be imported or is a plain module has no
\* directory of its own, hence neither marker nor migration modules.
DiskStates(markers, modulesets) ==
    {[module |-> k, marker |-> Absent, modules |-> {}] : k \in {"missing", "nonpackage"}}
        \cup [module : {"namespace", "package"}, marker : markers, modules : modulesets]

Restrictions(labels) ==
    {[is_none |-> TRUE, apps |-> {}]} \cup [is_none : {FALSE}, apps : SUBSET labels]

Start ==
    /\ i = 1
    /\ errors = <<>>
    /\ pc = "loop"
    /\ exc = "None"
    /\ reads = {}
    /\ maxed = {}

\* Spec: NumApps applications, marker files and directories from a few samples.
SampleMarkers ==
    {Absent, Unreadable, File(<<>>), File(<<49>>), File(<<32, 50, 10>>),
     File(<<49, 10, 50>>)}

SampleModules ==
    {{}, {Module(<<49>>), Module(<<50>>), Module(<<95, 50>>), Package(<<50, 49>>)}}

SampleDisk ==
    {[module |-> "missing", marker |-> Absent, modules |-> {}]}
        \cup [module : {"package"}, marker : SampleMarkers, modules : SampleModules]

Init ==
    /\ registry \in {r \in [1 .. NumApps -> [label : 1 .. NumApps, path : Paths]] :
                        \A k \in 1 .. NumApps : r[k].label = k}
    /\ disk \in [1 .. NumApps -> SampleDisk]
    /\ app_configs \in Restrictions(1 .. NumApps)
    /\ Start

Spec == Init /\ [][Next]_vars

\* SpecFile: one application, every marker file of up to MaxLen characters.
InitFile ==
    /\ registry \in {<<[label |-> 1, path |-> p]>> : p \in Paths}
    /\ disk \in [{1} -> DiskStates({Absent, Unreadable} \cup {File(t) : t \in Texts(MaxLen)},
                                   SUBSET ModuleUniverse)]
    /\ app_configs \in Restrictions({1})
    /\ Start

SpecFile == InitFile /\ [][Next]_vars

(* ----------------- vocabulary of the properties ----------------------- *)

Labels == {registry[k].label : k \in DOMAIN registry}

Position(l) == CHOOSE k \in DOMAIN registry : registry[k].label = l

\* The loop has finished its iteration for the application labelled l.
Processed(l) == i > Position(l)

DiagsOf(l) == SelectSeq(errors, LAMBDA d : d.label = l)

FirstParty(l) ==
    "site-packages" \notin
        {registry[Position(l)].path[j] : j \in DOMAIN registry[Position(l)].path}

Selected(l) == app_configs.is_none \/ l \in app_configs.apps

Eligible(l) == FirstParty(l) /\ Selected(l) /\ disk[l].module = "package"

\* The names of the migration modules present: plain modules, not
\* sub-packages, whose name starts with neither "_" nor "~".
MigrationNames(l) ==
    {n \in {e.name : e \in disk[l].modules} :
        /\ [name |-> n, is_pkg |-> FALSE] \in disk[l].modules
        /\ n[1] # 95
        /\ n[1] # 126}

MarkerAbsent(l) == ~ disk[l].marker.exists

MarkerReadable(l) == disk[l].marker.exists /\ disk[l].marker.readable

\* The lines of a text as index intervals: maximal runs without a line break.
LinesOf(t) ==
    {<<a, b>> \in (1 .. Len(t)) \X (1 .. Len(t)) :
        /\ a <= b
        /\ \A j \in a .. b : t[j] \notin LineBreaks
        /\ (a = 1 \/ t[a - 1] \in LineBreaks)
        /\ (b = Len(t) \/ t[b + 1] \in LineBreaks)}

NonEmptyLines(t) == {ln \in LinesOf(t) : \E j \in ln[1] .. ln[2] : t[j] \notin Whitespace}

NonEmptyLineCount(l) == Cardinality(NonEmptyLines(disk[l].marker.data))

\* The name on the only non-empty line, without the whitespace around it.
RecordedName(l) ==
    LET t    == disk[l].marker.data
        ink  == {j \in 1 .. Len(t) : t[j] \notin Whitespace}
        from == CHOOSE j \in ink : \A m \in ink : j <= m
        to   == CHOOSE j \in ink : \A m \in ink : m <= j
    IN  SubSeq(t, from, to)

SingleName(l) == MarkerReadable(l) /\ NonEmptyLineCount(l) = 1

\* a <= b in the ordinary (lexicographic, code point) ordering of strings.
StrLeq(a, b) ==
    \E k \in 0 .. Len(a) :
        /\ k <= Len(b)
        /\ \A j \in 1 .. k : a[j] = b[j]
        /\ \/ k = Len(a)
           \/ k < Len(b) /\ a[k + 1] < b[k + 1]

IsMaximum(m, S) == m \in S /\ \A n \in S : StrLeq(n, m)

TrueMaximum(l) == CHOOSE m \in MigrationNames(l) : IsMaximum(m, MigrationNames(l))

UpToDate(l) == SingleName(l) /\ IsMaximum(RecordedName(l), MigrationNames(l))

Diag(id, l, args) == [id |-> id, label |-> l, args |-> args]

\* The diagnostics specified for l, from l's own marker and names only.
ExpectedDiags(l) ==
    IF MarkerAbsent(l) THEN <<Diag("dmc.E001", l, <<>>)>>
    ELSE IF NonEmptyLineCount(l) > 1 THEN <<Diag("dmc.E002", l, <<>>)>>
    ELSE IF RecordedName(l) \notin MigrationNames(l)
         THEN <<Diag("dmc.E003", l, <<RecordedName(l)>>)>>
    ELSE IF ~ IsMaximum(RecordedName(l), MigrationNames(l))
         THEN <<Diag("dmc.E004", l, <<RecordedName(l), TrueMaximum(l)>>)>>
    ELSE <<>>

\* l's marker is in one of the states the check is specified for: absent, or
\* readable with at least one non-empty line.
Checkable(l) == MarkerAbsent(l) \/ (MarkerReadable(l) /\ NonEmptyLineCount(l) >= 1)

(* ----------------------------- claims --------------------------------- *)

\* C1: check_max_migration_files never raises: whatever the marker of every
\* eligible application is (absent, empty or whitespace-only, one line,
\* several lines), the call returns a list.
C1_NeverRaises ==
    (\A l \in Labels : Eligible(l) => MarkerAbsent(l) \/ MarkerReadable(l))
        => pc # "raised"

\* C2: each application is checked independently: when the call ends, every
\* eligible application B whose own marker is absent or holds a name has
\* exactly the diagnostics that B's own marker and names call for, whatever
\* the (absent or readable) markers of the other applications are and
\* wherever those are enumerated.
C2_CheckedIndependently ==
    (/\ pc \in {"returned", "raised"}
     /\ \A l \in Labels : MarkerAbsent(l) \/ MarkerReadable(l))
    => \A l \in Labels : Eligible(l) /\ Checkable(l) => DiagsOf(l) = ExpectedDiags(l)

\* C3: an application never has more than one diagnostic, only an eligible
\* one has any, and the diagnostic is that of the first condition that
\* matches in the order E001, E002, E003, E004.
C3_FirstMatchOnly ==
    \A l \in Labels :
        /\ Len(DiagsOf(l)) <= 1
        /\ Len(DiagsOf(l)) = 1 =>
              /\ Eligible(l)
              /\ LET id == DiagsOf(l)[1].id
                 IN  \/ id = "dmc.E001" /\ MarkerAbsent(l)
                     \/ id = "dmc.E002" /\ MarkerReadable(l) /\ NonEmptyLineCount(l) > 1
                     \/ id = "dmc.E003" /\ SingleName(l)
                            /\ RecordedName(l) \notin MigrationNames(l)
                     \/ id = "dmc.E004" /\ SingleName(l)
                            /\ RecordedName(l) \in MigrationNames(l)
                            /\ ~ IsMaximum(RecordedName(l), MigrationNames(l))

\* C3 witness: a processed application whose marker has several lines, the
\* first of which names no migration, holds the E002 diagnostic only.
C3_Witness ==
    \E l \in Labels :
        /\ Processed(l) /\ Eligible(l) /\ MarkerReadable(l)
        /\ NonEmptyLineCount(l) > 1 /\ MigrationNames(l) = {}
        /\ DiagsOf(l) = <<Diag("dmc.E002", l, <<>>)>>
        /\ Len(errors) = 2

\* C4: a marker holding a single name that is a discovered migration but not
\* the maximum under string ordering yields exactly one E004 carrying the
\* recorded name and the true maximum.
C4_StaleMarker ==
    \A l \in Labels :
        (/\ Eligible(l) /\ SingleName(l)
         /\ RecordedName(l) \in MigrationNames(l)
         /\ ~ IsMaximum(RecordedName(l), MigrationNames(l)))
        => /\ pc # "raised"
           /\ Processed(l) =>
                DiagsOf(l) = <<Diag("dmc.E004", l, <<RecordedName(l), TrueMaximum(l)>>)>>

\* C4 witness: the marker names "12" while "2" is the latest of three names.
C4_Witness ==
    /\ pc = "returned"
    /\ Eligible(1) /\ SingleName(1)
    /\ MigrationNames(1) = {<<49>>, <<49, 50>>, <<50>>}
    /\ errors = <<Diag("dmc.E004", 1, <<(<<49, 50>>), (<<50>>)>>)>>

\* C5: a marker whose single line, stripped, is the maximum of the discovered
\* names yields no diagnostic; when every eligible application is in that
\* case the returned list is empty.
C5_UpToDate ==
    /\ \A l \in Labels : Eligible(l) /\ UpToDate(l) => DiagsOf(l) = <<>>
    /\ (\A l \in Labels : Eligible(l) => UpToDate(l))
          => pc # "raised" /\ errors = <<>>

\* C5 witness: the call returned with every application eligible and up to
\* date, one of them through a marker with whitespace around the name.
C5_Witness ==
    /\ pc = "returned"
    /\ \A l \in Labels : Eligible(l) /\ UpToDate(l)
    /\ maxed = Labels
    /\ \E l \in Labels : Len(disk[l].marker.data) > Len(RecordedName(l))

\* C6: a failure to read an existing marker is reported as E001 or E002 for
\* that application and the pass goes on.
C6_ReadFailureReported ==
    \A l \in Labels :
        (Eligible(l) /\ disk[l].marker.exists /\ ~ disk[l].marker.readable
            /\ l \in reads)
        => /\ pc # "raised"
           /\ \E k \in 1 .. Len(errors) :
                 errors[k].label = l /\ errors[k].id \in {"dmc.E001", "dmc.E002"}

\* C7: a marker with more than one non-empty line yields exactly one E002 and
\* nothing else is checked; a marker with exactly one non-empty line,
\* whatever blank lines or whitespace surround it, never yields E002.
C7_MultipleLines ==
    \A l \in Labels : Eligible(l) /\ MarkerReadable(l) =>
        /\ NonEmptyLineCount(l) > 1 =>
              /\ pc # "raised"
              /\ l \notin maxed
              /\ Processed(l) => DiagsOf(l) = <<Diag("dmc.E002", l, <<>>)>>
        /\ NonEmptyLineCount(l) = 1 =>
              /\ pc # "raised"
              /\ \A k \in 1 .. Len(DiagsOf(l)) : DiagsOf(l)[k].id # "dmc.E002"

\* C7 witness: the call returned one E002 for a marker of two non-empty lines.
C7_Witness ==
    /\ pc = "returned"
    /\ Eligible(1) /\ MarkerReadable(1) /\ NonEmptyLineCount(1) = 2
    /\ errors = <<Diag("dmc.E002", 1, <<>>)>>

\* C8: a marker holding a name that is not a discovered migration yields
\* exactly one E003, also when no migration was discovered; the maximum is
\* never taken of an empty set.
C8_UnknownName ==
    /\ \A l \in Labels :
          (Eligible(l) /\ SingleName(l) /\ RecordedName(l) \notin MigrationNames(l))
          => /\ pc # "raised"
             /\ Processed(l) => DiagsOf(l) = <<Diag("dmc.E003", l, <<RecordedName(l)>>)>>
    /\ \A l \in maxed : MigrationNames(l) # {}

\* C8 witness: E003 for a marker naming the sub-package 21 of a directory
\* that holds no migration at all.
C8_Witness ==
    /\ pc = "returned"
    /\ Eligible(1) /\ SingleName(1)
    /\ MigrationNames(1) = {} /\ disk[1].modules # {}
    /\ errors = <<Diag("dmc.E003", 1, <<(<<50, 49>>)>>)>>

\* C9: an absent marker yields exactly one E001 naming the application's
\* label, whatever its migration names, and the marker is never read.
C9_MissingMarker ==
    \A l \in Labels : Eligible(l) /\ MarkerAbsent(l) =>
        /\ l \notin reads
        /\ Processed(l) => DiagsOf(l) = <<Diag("dmc.E001", l, <<>>)>>

\* C9 witness: the last application of the registry has migrations and no
\* marker, and the call returned its E001 after another diagnostic.
C9_Witness ==
    /\ pc = "returned"
    /\ Eligible(NumApps) /\ MarkerAbsent(NumApps) /\ MigrationNames(NumApps) # {}
    /\ Len(errors) > 1
    /\ errors[Len(errors)] = Diag("dmc.E001", NumApps, <<>>)

\* C10: skipped applications contribute nothing: every diagnostic belongs to
\* an application outside site-packages, inside the restricting set when one
\* is given, and with a migrations package; the marker of any other
\* application is not even read.
C10_SkippedContributeNothing ==
    /\ \A k \in 1 .. Len(errors) :
          /\ errors[k].label \in Labels
          /\ FirstParty(errors[k].label)
          /\ Selected(errors[k].label)
          /\ disk[errors[k].label].module = "package"
    /\ \A l \in Labels : ~ Eligible(l) =>
          /\ DiagsOf(l) = <<>>
          /\ l \notin reads
          /\ pc # "raised"

\* C10 witness: a first-party, selected application whose migrations module
\* is a namespace module with a two-line marker was passed over.
C10_Witness ==
    /\ pc = "returned"
    /\ FirstParty(1) /\ Selected(1)
    /\ disk[1].module = "namespace"
    /\ MarkerReadable(1) /\ NonEmptyLineCount(1) > 1
    /\ errors = <<>>

====
